---- MODULE Spec2Model ----
(***************************************************************************)
(* Beta calibration (betacal): the four calibrators of                     *)
(* betacal/beta_calibration.py behind the BetaCalibration wrapper of       *)
(* betacal/__init__.py.                                                    *)
(*                                                                         *)
(* One wrapper instance is modelled.  Its `parameters` key picks the       *)
(* calibrator at construction; fit and predict are forwarded to it.        *)
(*                                                                         *)
(* Numbers.  Scores are fixed-point: the integer s stands for s float64    *)
(* ulps of 1.0, and One stands for 1.0.  float32 arrays hold only the      *)
(* multiples of the float32 eps.  Logarithms, the logistic function and    *)
(* the bounded minimiser are kept symbolic (their argument is recorded),   *)
(* except where they leave the finite reals: log(0), x/0, expit(+-inf).    *)
(*                                                                         *)
(* Python values.  An attribute that was never assigned is Unset (<<>>).   *)
(* Python's None is None (<<>>) and a present float v is <<v>>.            *)
(*                                                                         *)
(* Inputs are 1-D arrays of finite floats (column_or_1d leaves them as     *)
(* they are).  sample_weight and penalty are handed to the solver and read *)
(* nowhere else; the solver is an oracle: it raises, or answers with       *)
(* coefficients and an intercept drawn from a bounded range.               *)
(***************************************************************************)
EXTENDS Integers, Sequences, FiniteSets, TLC

VARIABLES
    parameters,   \* BetaCalibration.parameters: which calibrator was built
    map_,         \* calibrator.map_ : Unset, or <<a, b, m>>
    lr_,          \* calibrator.lr_  : Unset, or <<fitted LogisticRegression>>
    filters,      \* the process-wide warnings filter
    fitLayout,    \* columns the stored lr_ was trained on (history)
    last          \* what the most recent call did (observation)

vars == <<parameters, map_, lr_, filters, fitLayout, last>>

---------------------------------------------------------------------------
(* Bounds of the model *)

\* 1.0 is Steps float32 ulps wide
Steps == 2
\* longest score / label array
MaxLen == 2
\* largest magnitude of a coefficient or intercept the solver returns
MaxCoef == 1

---------------------------------------------------------------------------
(* Values *)

Unset == <<>>
None == <<>>
Just(v) == <<v>>

Variants == {"abm", "am", "ab", "a"}
DTypes == {"float64", "float32"}

\* np.finfo(df.dtype).eps, in float64 ulps
eps(dtype) == IF dtype = "float64" THEN 1 ELSE 2

One == eps("float32") * Steps

\* the values a float array of this dtype can hold in [0, 1]
Raw(dtype) == {s \in 0..One : s % eps(dtype) = 0}

\* 1-D score arrays: runs of consecutive values of the dtype, from any start
ScoreSeqs(dtype) ==
    UNION {{[i \in 1..n |-> s + (i - 1) * eps(dtype)] :
              s \in {r \in Raw(dtype) : r + (n - 1) * eps(dtype) <= One}}
           : n \in 1..MaxLen}

LabelSeqs == UNION {[1..n -> {0, 1}] : n \in 1..MaxLen}

Coefs == (0 - MaxCoef)..MaxCoef

---------------------------------------------------------------------------
(* numpy / scipy helpers *)

\* np.clip(s, lo, hi) == minimum(maximum(s, lo), hi), elementwise
clip_nobound(s, lo, hi) == s

clip(s, lo, hi) == IF s < lo THEN lo ELSE IF s > hi THEN hi ELSE s

\* df = np.clip(df, eps, 1 - eps)
Clipped(dtype, X) ==
    [i \in DOMAIN X |-> clip(X[i], eps(dtype), One - eps(dtype))]

\* what one call clipped: <<dtype, raw score, clipped score>>
ClipTriples(dtype, X) ==
    {<<dtype, X[i], Clipped(dtype, X)[i]>> : i \in DOMAIN X}

\* np.log(num / den): finite only for num > 0 and den > 0
Ln(num, den) ==
    IF num > 0 /\ den > 0 THEN [k |-> "ln", n |-> num, d |-> den]
    ELSE IF num = 0 /\ den > 0 THEN [k |-> "-inf", n |-> 0, d |-> 0]
    ELSE IF num > 0 /\ den = 0 THEN [k |-> "inf", n |-> 0, d |-> 0]
    ELSE [k |-> "nan", n |-> 0, d |-> 0]

\* x[:, 1] *= -1
Neg(v) ==
    IF v.k = "ln" THEN [v EXCEPT !.k = "-ln"]
    ELSE IF v.k = "-inf" THEN [v EXCEPT !.k = "inf"]
    ELSE IF v.k = "inf" THEN [v EXCEPT !.k = "-inf"]
    ELSE v

Finite(v) == v.k \in {"ln", "-ln"}

\* x = np.log(np.hstack((df, 1. - df))); x[:, 1] *= -1
x_BetaCal(df) ==
    [cols |-> <<"ln(s)", "-ln(1-s)">>,
     rows |-> [i \in DOMAIN df |-> <<Ln(df[i], One), Neg(Ln(One - df[i], One))>>]]

\* x = np.log(df / (1. - df))
x_logit(df) ==
    [cols |-> <<"logit(s)">>,
     rows |-> [i \in DOMAIN df |-> <<Ln(df[i], One - df[i])>>]]

\* x = np.log(2 * np.hstack((df, 1. - df)))
x_BetaABCal(df) ==
    [cols |-> <<"ln(2s)", "ln(2(1-s))">>,
     rows |-> [i \in DOMAIN df |-> <<Ln(2 * df[i], One), Ln(2 * (One - df[i]), One)>>]]

\* x[:, j].reshape(-1, 1)
Column(x, j) ==
    [cols |-> <<x.cols[j]>>,
     rows |-> [i \in DOMAIN x.rows |-> <<x.rows[i][j]>>]]

AllFinite(x) ==
    \A i \in DOMAIN x.rows : \A j \in DOMAIN x.rows[i] : Finite(x.rows[i][j])

\* inter / a on numpy floats: division by zero gives inf or nan, no exception
Div(n, d) ==
    IF d # 0 THEN <<"div", n, d>>
    ELSE IF n > 0 THEN <<"inf", 0, 0>>
    ELSE IF n < 0 THEN <<"-inf", 0, 0>>
    ELSE <<"nan", 0, 0>>

\* scipy.special.expit
expit(q) ==
    IF q[1] = "div" THEN <<"expit", q[2], q[3], 0>>
    ELSE IF q[1] = "inf" THEN <<"const", 1, 1, 0>>
    ELSE IF q[1] = "-inf" THEN <<"const", 0, 1, 0>>
    ELSE <<"nan", 0, 0, 0>>

\* m = 0.5
Half == <<"const", 1, 2, 0>>

\* a or 0
OrZero(v) == IF v = None \/ v = Just(0) THEN 0 ELSE v[1]

\* minimize_scalar(lambda mh: |b_*log(1-mh) - a_*log(mh) - inter|, bounds=[0, 1]).x
minimize_scalar(a_, b_, inter) == <<"argmin", a_, b_, inter>>

---------------------------------------------------------------------------
(* sklearn collaborators *)

\* indexable(X, y) -> check_consistent_length: equal numbers of samples
check_nothing(X, y) == TRUE

check_consistent_length(X, y) == Len(X) = Len(y)

\* what LogisticRegression.fit answers to a problem of k columns
SolverResult(k, fit_intercept) ==
    [coef : [1..k -> Coefs],
     intercept : IF fit_intercept THEN Coefs ELSE {0}]

\* LogisticRegression.fit rejects non-finite features and one-class labels
SolverRaises(x, y) ==
    \/ ~AllFinite(x)
    \/ Cardinality({y[i] : i \in DOMAIN y}) < 2

\* the fitted estimator: coef_[0], intercept_[0], n_features_in_
Fitted(x, fit_intercept, res) ==
    [coef |-> res.coef,
     intercept |-> res.intercept,
     fit_intercept |-> fit_intercept,
     n_features |-> Len(x.cols)]

\* one entry of the solver-call log of a fit: what the solver was given and
\* what fit read back from it (<<>> where it read nothing)
Call(x, y, fit_intercept, coef, inter) ==
    [cols |-> x.cols, nrows |-> Len(x.rows), nlabels |-> Len(y),
     fit_intercept |-> fit_intercept, coef |-> coef, inter |-> inter]

\* lr.predict_proba(x)[:, 1]
predict_proba(lr, x) ==
    [i \in DOMAIN x.rows |->
        [coef |-> lr.coef, intercept |-> lr.intercept, row |-> x.rows[i]]]

---------------------------------------------------------------------------
(* Observation of one call *)

ErrLength == "ValueError: inconsistent numbers of samples"
ErrSolver == "ValueError: LogisticRegression.fit"
ErrUnpack == "ValueError: too many values to unpack"
ErrAttribute == "AttributeError"
ErrShape == "ValueError: LogisticRegression.predict_proba"

\* nothing observed yet
NoObs ==
    [op |-> "init", outcome |-> "none", error |-> "", returns |-> "nothing",
     nX |-> 0, nY |-> 0, dtype |-> "", clipped |-> {}, feats |-> {},
     calls |-> <<>>, given |-> <<>>, proba |-> <<>>, mid |-> <<>>]

\* every value np.log produced in the call
Feats(x) == {x.rows[i][j] : i \in DOMAIN x.rows, j \in DOMAIN x.cols}

\* the instance attributes a method reads and writes
Self == [map_ |-> map_, lr_ |-> lr_, fitLayout |-> fitLayout]

\* a method's effect becomes the next state
Step(r) ==
    /\ map_' = r.self.map_
    /\ lr_' = r.self.lr_
    /\ fitLayout' = r.self.fitLayout
    /\ last' = r.obs
    \* warnings.filterwarnings("ignore"): every fit that gets past indexable
    /\ filters' = IF r.obs.op = "fit" /\ r.obs.error # ErrLength
                  THEN "ignore" ELSE filters
    /\ UNCHANGED parameters

\* an exception leaves the attributes as they were
Raise(self, obs, error) ==
    [self |-> self,
     obs |-> [obs EXCEPT !.outcome = "raised", !.error = error]]

\* the pair stored only while none is stored yet
Assign_once(self, rhs, cols, obs) ==
    IF Len(rhs) = 2
    THEN [self |-> IF self.map_ = Unset
                   THEN [map_ |-> rhs[1], lr_ |-> Just(rhs[2]), fitLayout |-> cols]
                   ELSE self,
          obs |-> [obs EXCEPT !.outcome = "returned", !.returns = "self"]]
    ELSE [self |-> self,
          obs |-> [obs EXCEPT !.outcome = "raised", !.error = ErrUnpack]]

\* self.map_, self.lr_ = rhs ; return self
\* (sequence unpacking checks the length before it stores anything)
Assign(self, rhs, cols, obs) ==
    IF Len(rhs) = 2
    THEN [self |-> [map_ |-> rhs[1], lr_ |-> Just(rhs[2]), fitLayout |-> cols],
          obs |-> [obs EXCEPT !.outcome = "returned", !.returns = "self"]]
    ELSE Raise(self, obs, ErrUnpack)

---------------------------------------------------------------------------
(* _BetaCal: three parameters a, b, m *)

\* the sign rule, with the two tests in the other order
BetaCal_branch_swapped(coefs) ==
    IF coefs[2] < 0 THEN "a_only"
    ELSE IF coefs[1] < 0 THEN "b_only"
    ELSE "full"

\* if coefs[0] < 0: ... elif coefs[1] < 0: ... else: ...
BetaCal_branch(coefs) ==
    IF coefs[1] < 0 THEN "b_only"
    ELSE IF coefs[2] < 0 THEN "a_only"
    ELSE "full"

\* the columns the re-fit (if any) is run on
BetaCal_refit_x(br, x) ==
    IF br = "b_only" THEN Column(x, 2)
    ELSE IF br = "a_only" THEN Column(x, 1)
    ELSE x

\* a, b as set in the three branches; coefs are those of the last solver fit
BetaCal_ab(br, coefs) ==
    IF br = "b_only" THEN <<None, Just(coefs[1])>>
    ELSE IF br = "a_only" THEN <<Just(coefs[1]), None>>
    ELSE <<Just(coefs[1]), Just(coefs[2])>>

BetaCal_fit_op(self, p) ==
    LET obs0 == [NoObs EXCEPT !.op = "fit", !.nX = Len(p.X), !.nY = Len(p.y),
                              !.dtype = p.dtype]
    IN
    IF ~check_consistent_length(p.X, p.y) THEN Raise(self, obs0, ErrLength)
    ELSE
    LET df == Clipped(p.dtype, p.X)
        x == x_BetaCal(df)
        obs1 == [obs0 EXCEPT !.clipped = ClipTriples(p.dtype, p.X),
                             !.feats = Feats(x)]
    IN
    IF SolverRaises(x, p.y)
    THEN Raise(self, [obs1 EXCEPT !.calls = <<Call(x, p.y, TRUE, <<>>, <<>>)>>], ErrSolver)
    ELSE
    LET br == BetaCal_branch(p.full.coef)
        x1 == BetaCal_refit_x(br, x)
        res == IF br = "full" THEN p.full ELSE p.reduced
        lr == Fitted(x1, TRUE, res)
        ab == BetaCal_ab(br, lr.coef)
        inter == lr.intercept
        m == minimize_scalar(OrZero(ab[1]), OrZero(ab[2]), inter)
        calls == IF br = "full"
                 THEN <<Call(x, p.y, TRUE, lr.coef, Just(inter))>>
                 ELSE <<Call(x, p.y, TRUE, p.full.coef, <<>>),
                        Call(x1, p.y, TRUE, lr.coef, Just(inter))>>
        obs2 == [obs1 EXCEPT !.calls = calls, !.mid = Just(m)]
    IN Assign(self, <<<<ab[1], ab[2], m>>, lr>>, x1.cols, obs2)

\* predict with the None tests left out
BetaCal_predict_select_all(map, x) == x

\* if self.map_[0] is None: ... elif self.map_[1] is None: ...
BetaCal_predict_select(map, x) ==
    IF map[1] = None THEN Column(x, 2)
    ELSE IF map[2] = None THEN Column(x, 1)
    ELSE x

\* predict falling back to an identity solver while none is stored
Proba_default(self, x, obs) ==
    LET lr == IF self.lr_ = Unset
              THEN [coef |-> [j \in DOMAIN x.cols |-> 1], intercept |-> 0,
                    fit_intercept |-> TRUE, n_features |-> Len(x.cols)]
              ELSE self.lr_[1]
        obs1 == [obs EXCEPT !.given = x.cols]
    IN
    IF Len(x.cols) # lr.n_features \/ ~AllFinite(x)
    THEN [self |-> self,
          obs |-> [obs1 EXCEPT !.outcome = "raised", !.error = ErrShape]]
    ELSE [self |-> self,
          obs |-> [obs1 EXCEPT !.outcome = "returned", !.returns = "proba",
                               !.proba = predict_proba(lr, x)]]

\* return self.lr_.predict_proba(x)[:, 1]
Proba(self, x, obs) ==
    IF self.lr_ = Unset THEN Raise(self, obs, ErrAttribute)
    ELSE
    LET lr == self.lr_[1]
        obs1 == [obs EXCEPT !.given = x.cols]
    IN
    IF Len(x.cols) # lr.n_features \/ ~AllFinite(x)
    THEN Raise(self, obs1, ErrShape)
    ELSE [self |-> self,
          obs |-> [obs1 EXCEPT !.outcome = "returned", !.returns = "proba",
                               !.proba = predict_proba(lr, x)]]

\* the clipping and transform every predict starts with
PredictObs(dtype, S, x) ==
    [NoObs EXCEPT !.op = "predict", !.nX = Len(S), !.dtype = dtype,
                  !.clipped = ClipTriples(dtype, S), !.feats = Feats(x)]

BetaCal_predict_op(self, dtype, S) ==
    LET x == x_BetaCal(Clipped(dtype, S))
        obs == PredictObs(dtype, S, x)
    IN
    IF self.map_ = Unset THEN Raise(self, obs, ErrAttribute)
    ELSE Proba(self, BetaCal_predict_select(self.map_, x), obs)

---------------------------------------------------------------------------
(* _BetaAMCal: two parameters a = b and m *)

\* b = a = coefs[0] ; m = expit(inter / a)
BetaAMCal_map(coefs, inter) ==
    <<Just(coefs[1]), Just(coefs[1]), expit(Div(inter, coefs[1]))>>

BetaAMCal_fit_op(self, p) ==
    LET obs0 == [NoObs EXCEPT !.op = "fit", !.nX = Len(p.X), !.nY = Len(p.y),
                              !.dtype = p.dtype]
    IN
    IF ~check_consistent_length(p.X, p.y) THEN Raise(self, obs0, ErrLength)
    ELSE
    LET x == x_logit(Clipped(p.dtype, p.X))
        obs1 == [obs0 EXCEPT !.clipped = ClipTriples(p.dtype, p.X),
                             !.feats = Feats(x)]
    IN
    IF SolverRaises(x, p.y)
    THEN Raise(self, [obs1 EXCEPT !.calls = <<Call(x, p.y, TRUE, <<>>, <<>>)>>],
               ErrSolver)
    ELSE
    LET lr == Fitted(x, TRUE, p.full)
        abm == BetaAMCal_map(lr.coef, lr.intercept)
        obs2 == [obs1 EXCEPT
                    !.calls = <<Call(x, p.y, TRUE, lr.coef, Just(lr.intercept))>>,
                    !.mid = Just(abm[3])]
    IN \* self.map_, self.lr_ = [a, b, m]
       Assign(self, abm, x.cols, obs2)

BetaAMCal_predict_op(self, dtype, S) ==
    LET x == x_logit(Clipped(dtype, S))
    IN Proba(self, x, PredictObs(dtype, S, x))

---------------------------------------------------------------------------
(* _BetaABCal: two parameters a and b, m = 0.5 *)

\* b without the sign change
BetaABCal_map_unsigned(coefs) == <<Just(coefs[1]), Just(coefs[2]), Half>>

\* a = coefs[0] ; b = -coefs[1] ; m = 0.5
BetaABCal_map(coefs) == <<Just(coefs[1]), Just(0 - coefs[2]), Half>>

BetaABCal_fit_op(self, p) ==
    LET obs0 == [NoObs EXCEPT !.op = "fit", !.nX = Len(p.X), !.nY = Len(p.y),
                              !.dtype = p.dtype]
    IN
    IF ~check_consistent_length(p.X, p.y) THEN Raise(self, obs0, ErrLength)
    ELSE
    LET x == x_BetaABCal(Clipped(p.dtype, p.X))
        obs1 == [obs0 EXCEPT !.clipped = ClipTriples(p.dtype, p.X),
                             !.feats = Feats(x)]
    IN
    IF SolverRaises(x, p.y)
    THEN Raise(self, [obs1 EXCEPT !.calls = <<Call(x, p.y, FALSE, <<>>, <<>>)>>],
               ErrSolver)
    ELSE
    LET lr == Fitted(x, FALSE, p.full)
        abm == BetaABCal_map(lr.coef)
        obs2 == [obs1 EXCEPT !.calls = <<Call(x, p.y, FALSE, lr.coef, <<>>)>>,
                             !.mid = Just(abm[3])]
    IN Assign(self, <<abm, lr>>, x.cols, obs2)

BetaABCal_predict_op(self, dtype, S) ==
    LET x == x_BetaABCal(Clipped(dtype, S))
    IN Proba(self, x, PredictObs(dtype, S, x))

---------------------------------------------------------------------------
(* _BetaACal: one parameter a = b, m = 0.5 *)

\* b = a = coefs[0] ; m = 0.5
BetaACal_map(coefs) == <<Just(coefs[1]), Just(coefs[1]), Half>>

BetaACal_fit_op(self, p) ==
    LET obs0 == [NoObs EXCEPT !.op = "fit", !.nX = Len(p.X), !.nY = Len(p.y),
                              !.dtype = p.dtype]
    IN
    IF ~check_consistent_length(p.X, p.y) THEN Raise(self, obs0, ErrLength)
    ELSE
    LET x == x_logit(Clipped(p.dtype, p.X))
        obs1 == [obs0 EXCEPT !.clipped = ClipTriples(p.dtype, p.X),
                             !.feats = Feats(x)]
    IN
    IF SolverRaises(x, p.y)
    THEN Raise(self, [obs1 EXCEPT !.calls = <<Call(x, p.y, FALSE, <<>>, <<>>)>>],
               ErrSolver)
    ELSE
    LET lr == Fitted(x, FALSE, p.full)
        abm == BetaACal_map(lr.coef)
        obs2 == [obs1 EXCEPT !.calls = <<Call(x, p.y, FALSE, lr.coef, <<>>)>>,
                             !.mid = Just(abm[3])]
    IN Assign(self, <<abm, lr>>, x.cols, obs2)

BetaACal_predict_op(self, dtype, S) ==
    LET x == x_logit(Clipped(dtype, S))
    IN Proba(self, x, PredictObs(dtype, S, x))

---------------------------------------------------------------------------
(* Inputs: calibration problems *)

\* columns of the variant's feature matrix, and whether it fits an intercept
NCols(v) == IF v \in {"abm", "ab"} THEN 2 ELSE 1
FitIntercept(v) == v \in {"abm", "am"}

\* score arrays with their dtype
ScoreArrays == UNION {{<<dt, X>> : X \in ScoreSeqs(dt)} : dt \in DTypes}

\* reference data (both boundary scores, both classes) ...
RefScores == <<0, One>>
RefLabels(n) == [i \in 1..n |-> (i + 1) % 2]
\* ... and a reference solver answer (unit slopes, zero intercept)
RefResult(k) == [coef |-> [i \in 1..k |-> 1], intercept |-> 0]

\* A problem is the data given to fit together with what the solver answers
\* on it: `full` to the fit on the variant's feature matrix, `reduced` to the
\* single-column re-fit of _BetaCal.  Problems vary one thing at a time: the
\* scores, the labels, or the solver's answer, the rest being the reference.
ScoreProblems(v) ==
    {[dtype |-> d[1], X |-> d[2], y |-> RefLabels(Len(d[2])),
      full |-> RefResult(NCols(v)), reduced |-> RefResult(1)]
     : d \in ScoreArrays}

LabelProblems(v) ==
    {[dtype |-> "float64", X |-> RefScores, y |-> y,
      full |-> RefResult(NCols(v)), reduced |-> RefResult(1)]
     : y \in LabelSeqs}

\* the intercept of an answer that _BetaCal re-fits is never read: one is drawn
FullAnswers(v) ==
    {f \in SolverResult(NCols(v), FitIntercept(v)) :
        (v = "abm" /\ BetaCal_branch(f.coef) # "full") => f.intercept = 0}

ReducedAnswers(v, f) ==
    IF v = "abm" /\ BetaCal_branch(f.coef) # "full"
    THEN SolverResult(1, TRUE)
    ELSE {RefResult(1)}

SolverProblems(v) ==
    UNION {{[dtype |-> "float64", X |-> RefScores, y |-> RefLabels(2),
             full |-> f, reduced |-> r] : r \in ReducedAnswers(v, f)}
           : f \in FullAnswers(v)}

Problems(v) == ScoreProblems(v) \cup LabelProblems(v) \cup SolverProblems(v)

ProblemsBetaCal == Problems("abm")
ProblemsBetaAMCal == Problems("am")
ProblemsBetaABCal == Problems("ab")
ProblemsBetaACal == Problems("a")

---------------------------------------------------------------------------
(* The wrapper: BetaCalibration(parameters).fit / .predict *)

\* BetaCalibration.__init__: one of the four keys builds a calibrator
\* (any other key raises ValueError and builds nothing)
Init ==
    /\ parameters \in Variants
    /\ map_ = Unset
    /\ lr_ = Unset
    /\ filters = "default"
    /\ fitLayout = Unset
    /\ last = NoObs

BetaCal_fit ==
    /\ parameters = "abm"
    /\ \E p \in ProblemsBetaCal : Step(BetaCal_fit_op(Self, p))

BetaCal_predict ==
    /\ parameters = "abm"
    /\ \E d \in ScoreArrays : Step(BetaCal_predict_op(Self, d[1], d[2]))

BetaAMCal_fit ==
    /\ parameters = "am"
    /\ \E p \in ProblemsBetaAMCal : Step(BetaAMCal_fit_op(Self, p))

BetaAMCal_predict ==
    /\ parameters = "am"
    /\ \E d \in ScoreArrays : Step(BetaAMCal_predict_op(Self, d[1], d[2]))

BetaABCal_fit ==
    /\ parameters = "ab"
    /\ \E p \in ProblemsBetaABCal : Step(BetaABCal_fit_op(Self, p))

BetaABCal_predict ==
    /\ parameters = "ab"
    /\ \E d \in ScoreArrays : Step(BetaABCal_predict_op(Self, d[1], d[2]))

BetaACal_fit ==
    /\ parameters = "a"
    /\ \E p \in ProblemsBetaACal : Step(BetaACal_fit_op(Self, p))

BetaACal_predict ==
    /\ parameters = "a"
    /\ \E d \in ScoreArrays : Step(BetaACal_predict_op(Self, d[1], d[2]))

Next ==
    \/ BetaCal_fit
    \/ BetaCal_predict
    \/ BetaAMCal_fit
    \/ BetaAMCal_predict
    \/ BetaABCal_fit
    \/ BetaABCal_predict
    \/ BetaACal_fit
    \/ BetaACal_predict

Spec == Init /\ [][Next]_vars

---------------------------------------------------------------------------
(* Properties *)

FitReturned == last.op = "fit" /\ last.outcome = "returned"
PredictCalled == last.op = "predict"
\* the last solver fit of the call just made
LastCall == last.calls[Len(last.calls)]

\* C1: _BetaCal.predict hands the stored solver the column layout the most
\* recent completed fit trained it on: the second column alone when a is
\* None, the first alone when b is None, both otherwise; the column count
\* equals the solver's, so predict after a completed fit returns.
C1_PredictLayoutIsFitLayout ==
    (parameters = "abm" /\ map_ # Unset) =>
        /\ fitLayout = (IF map_[1] = None THEN <<"-ln(1-s)">>
                        ELSE IF map_[2] = None THEN <<"ln(s)">>
                        ELSE <<"ln(s)", "-ln(1-s)">>)
        /\ Len(fitLayout) = lr_[1].n_features
        /\ PredictCalled =>
              /\ last.outcome = "returned"
              /\ last.given = fitLayout
              /\ Len(last.given) = lr_[1].n_features
              /\ Len(last.proba) = last.nX

C1_Witness ==
    /\ parameters = "abm"
    /\ PredictCalled
    /\ last.outcome = "returned"
    /\ map_[1] = None
    /\ last.given = <<"-ln(1-s)">>

\* C2: _BetaCal.fit tests c0 < 0 first, then c1 < 0: one re-fit on the second
\* column (a None), else one re-fit on the first column (b None), else no
\* re-fit (a = c0, b = c1); the stored solver and the intercept in the
\* midpoint objective are those of the last solver fit.
C2_SignRuleInOrder ==
    (parameters = "abm" /\ FitReturned) =>
        LET c == last.calls[1].coef
        IN /\ IF c[1] < 0
              THEN /\ Len(last.calls) = 2
                   /\ last.calls[2].cols = <<"-ln(1-s)">>
                   /\ map_[1] = None
                   /\ map_[2] = Just(last.calls[2].coef[1])
              ELSE IF c[2] < 0
              THEN /\ Len(last.calls) = 2
                   /\ last.calls[2].cols = <<"ln(s)">>
                   /\ map_[1] = Just(last.calls[2].coef[1])
                   /\ map_[2] = None
              ELSE /\ Len(last.calls) = 1
                   /\ map_[1] = Just(c[1])
                   /\ map_[2] = Just(c[2])
           /\ last.calls[1].cols = <<"ln(s)", "-ln(1-s)">>
           /\ lr_[1].coef = LastCall.coef
           /\ Just(lr_[1].intercept) = LastCall.inter
           /\ map_[3] = minimize_scalar(OrZero(map_[1]), OrZero(map_[2]),
                                        LastCall.inter[1])

C2_Witness ==
    /\ parameters = "abm"
    /\ FitReturned
    /\ last.calls[1].coef[1] < 0
    /\ last.calls[1].coef[2] < 0
    /\ Len(last.calls) = 2

\* C3: _BetaAMCal.fit on valid input whose solver slope c0 is nonzero returns
\* self and leaves (a, b, m) = (c0, c0, expit(I / c0)) with the fitted solver.
C3_AMFitStoresTriple ==
    (/\ parameters = "am"
     /\ last.op = "fit"
     /\ last.calls # <<>>
     /\ last.calls[1].coef # <<>>
     /\ last.calls[1].coef[1] # 0) =>
        /\ last.outcome = "returned"
        /\ last.returns = "self"
        /\ map_ = <<Just(last.calls[1].coef[1]), Just(last.calls[1].coef[1]),
                    expit(Div(last.calls[1].inter[1], last.calls[1].coef[1]))>>
        /\ lr_ # Unset
        /\ lr_[1].coef = last.calls[1].coef

\* C4: predict on an instance on which no fit has completed raises, returns
\* no probabilities, and leaves map_ and lr_ unset (no defaults appear).
C4_PredictBeforeFitRaises ==
    (PredictCalled /\ fitLayout = Unset) =>
        /\ last.outcome = "raised"
        /\ last.error = ErrAttribute
        /\ last.returns = "nothing"
        /\ last.proba = <<>>
        /\ last.given = <<>>
        /\ map_ = Unset
        /\ lr_ = Unset

C4_Witness ==
    /\ PredictCalled
    /\ fitLayout = Unset
    /\ parameters = "a"
    /\ last.outcome = "raised"
    /\ last.nX > 0

\* C5: fit with scores and labels of different lengths raises the length
\* error before any solver call and leaves map_ and lr_ as they were; no
\* solver call of any fit gets rows and labels of different lengths.
C5_LengthMismatchRaisesFirst ==
    [][(last'.op = "fit") =>
          /\ \A i \in DOMAIN last'.calls :
                last'.calls[i].nrows = last'.calls[i].nlabels
          /\ (last'.nX # last'.nY) =>
                /\ last'.outcome = "raised"
                /\ last'.error = ErrLength
                /\ last'.calls = <<>>
                /\ map_' = map_
                /\ lr_' = lr_]_vars

C5_Witness ==
    /\ last.op = "fit"
    /\ last.nX # last.nY
    /\ last.error = ErrLength
    /\ map_ # Unset

\* the error a division by zero is claimed to raise
ErrNumerical == "ZeroDivisionError"

\* C6: _BetaAMCal.fit with solver slope 0 raises an explicit numerical error
\* and never computes a midpoint from the division by zero.
C6_ZeroSlopeRaisesNumerical ==
    (/\ parameters = "am"
     /\ last.op = "fit"
     /\ last.calls # <<>>
     /\ last.calls[1].coef = <<0>>) =>
        /\ last.outcome = "raised"
        /\ last.error = ErrNumerical
        /\ last.mid = <<>>
        /\ map_ = Unset

\* C7: the fixed-midpoint variants fit without intercept, once, and store
\* m = 0.5; _BetaABCal stores a = c0, b = -c1 of the fit on
\* [ln(2s), ln(2(1-s))], _BetaACal stores a = b = c0 of the logit fit.
C7_FixedMidpoint ==
    (parameters \in {"ab", "a"}) =>
        /\ (map_ # Unset) =>
              /\ map_[3] = Half
              /\ lr_[1].fit_intercept = FALSE
              /\ lr_[1].intercept = 0
        /\ (last.op = "fit") =>
              \A i \in DOMAIN last.calls : last.calls[i].fit_intercept = FALSE
        /\ FitReturned =>
              /\ Len(last.calls) = 1
              /\ lr_[1].coef = last.calls[1].coef
              /\ IF parameters = "ab"
                 THEN /\ last.calls[1].cols = <<"ln(2s)", "ln(2(1-s))">>
                      /\ map_[1] = Just(last.calls[1].coef[1])
                      /\ map_[2] = Just(0 - last.calls[1].coef[2])
                 ELSE /\ last.calls[1].cols = <<"logit(s)">>
                      /\ map_[1] = Just(last.calls[1].coef[1])
                      /\ map_[2] = Just(last.calls[1].coef[1])

C7_Witness ==
    /\ parameters = "ab"
    /\ FitReturned
    /\ last.calls[1].coef = <<1, 1>>
    /\ map_ = <<Just(1), Just(0 - 1), Half>>

\* the pair a completed fit must leave, from what its solver calls returned
ExpectedLr(calls) ==
    LET c == calls[Len(calls)]
    IN [coef |-> c.coef,
        intercept |-> IF c.inter = <<>> THEN 0 ELSE c.inter[1],
        fit_intercept |-> c.fit_intercept,
        n_features |-> Len(c.cols)]

ExpectedMap(v, calls) ==
    LET c == calls[Len(calls)]
    IN IF v = "abm"
       THEN LET a == IF c.cols = <<"-ln(1-s)">> THEN None ELSE Just(c.coef[1])
                b == IF c.cols = <<"ln(s)">> THEN None
                     ELSE Just(c.coef[Len(c.coef)])
            IN <<a, b, minimize_scalar(OrZero(a), OrZero(b), c.inter[1])>>
       ELSE IF v = "ab" THEN <<Just(c.coef[1]), Just(0 - c.coef[2]), Half>>
       ELSE IF v = "a" THEN <<Just(c.coef[1]), Just(c.coef[1]), Half>>
       ELSE <<Just(c.coef[1]), Just(c.coef[1]),
              expit(Div(c.inter[1], c.coef[1]))>>

\* C8: only a completed fit changes (map_, lr_), and it sets both from that
\* fit's own solver results; a fit that raises and every predict leave the
\* pair as it was, and a repeated predict on the same input returns the same.
C8_PairIsLastCompletedFit ==
    [][/\ IF last'.op = "fit" /\ last'.outcome = "returned"
          THEN /\ map_' = ExpectedMap(parameters, last'.calls)
               /\ lr_' = Just(ExpectedLr(last'.calls))
          ELSE /\ map_' = map_
               /\ lr_' = lr_
       /\ (/\ last.op = "predict" /\ last'.op = "predict"
           /\ last'.dtype = last.dtype
           /\ last'.nX = last.nX
           /\ last'.clipped = last.clipped) =>
              /\ last'.outcome = last.outcome
              /\ last'.proba = last.proba]_vars

C8_Witness ==
    /\ parameters = "abm"
    /\ FitReturned
    /\ Len(last.calls) = 1
    /\ map_[1] = Just(0)
    /\ lr_[1].intercept = 1

\* C9 (as amended): every score reaching np.log, in fit and predict, was
\* clipped to a value strictly between 0 and 1, so no transform value is
\* infinite or undefined; in consecutive calls the same score in arrays of
\* the same dtype is clipped to the same value.
C9_ClippedInsideUnitInterval ==
    [][/\ \A t \in last'.clipped : 0 < t[3] /\ t[3] < One
       /\ \A f \in last'.feats : Finite(f)
       /\ (last'.op = "predict" \/ (last'.op = "fit" /\ last'.nX = last'.nY)) =>
             /\ Cardinality(last'.clipped) = last'.nX
             /\ last'.feats # {}
       /\ \A t \in last.clipped : \A u \in last'.clipped :
             (t[1] = u[1] /\ t[2] = u[2]) => t[3] = u[3]]_vars

C9_Witness ==
    /\ PredictCalled
    /\ last.outcome = "returned"
    /\ <<"float64", 0, eps("float64")>> \in last.clipped

\* C9 (as claimed): every score reaching np.log was clipped strictly inside
\* (0, 1), no transform value is infinite or undefined, and a score clipped
\* by a completed fit is clipped to the same value by the predict after it.
C9_SameScoreSameClip ==
    [][/\ \A t \in last'.clipped : 0 < t[3] /\ t[3] < One
       /\ \A f \in last'.feats : Finite(f)
       /\ (last.op = "fit" /\ last.outcome = "returned" /\ last'.op = "predict") =>
             \A t \in last.clipped : \A u \in last'.clipped :
                 (t[2] = u[2]) => t[3] = u[3]]_vars

\* C10: after a completed _BetaCal.fit at most one of a, b is None and every
\* exponent that is defined is non-negative.
C10_ExponentsNonNegative ==
    (parameters = "abm" /\ map_ # Unset) =>
        /\ ~(map_[1] = None /\ map_[2] = None)
        /\ (map_[1] # None) => map_[1][1] >= 0
        /\ (map_[2] # None) => map_[2][1] >= 0

====
